---- MODULE Spec2Model ----
(***************************************************************************)
(* A model of the LSP client of goodiffer (class LSPService): the registry *)
(* of language-server subprocesses, the request correlation table with its *)
(* timers, the initialize handshake, the query operations, shutdown(), and *)
(* the Content-Length frame decoder of the stdout handler.                 *)
(*                                                                         *)
(* Scheduling follows Node's event loop.  A macrotask (an API call of the  *)
(* host, a timer, a stdout 'data' event, an 'exit' or 'error' event, the   *)
(* completion of fs.readFile) runs only when no continuation of an async   *)
(* function is runnable; the continuations (microtasks) it enables run     *)
(* before the next macrotask.  Every action is one synchronous segment of  *)
(* the code, from one await (or event) to the next.                        *)
(***************************************************************************)
EXTENDS Integers, Sequences, FiniteSets, TLC

\* Bounds of the model.
MaxReq == 3      \* request ids the model follows (cap on this.requestId)
MaxProcs == 3    \* subprocesses the model lets spawn() create
MaxOps == 2      \* API calls of the host (startServer, a query, shutdown)
MaxFaults == 2   \* faults of the environment: a failed spawn, a crash, an
                 \* elapsed timeout, a failed file read, an error response,
                 \* a failing write, a message with an id not sent to its
                 \* server, a request of the server to the client

Ids == 1..MaxReq
Procs == 1..MaxProcs
OpIds == 1..MaxOps

\* The files the host passes.  The four query operations share one control
\* flow (ensureServerForFile, openFile, sendRequest), so one method stands
\* for them here.
Files == {"a.ts", "b.go", "n.txt"}
QueryMethods == {"textDocument/definition"}

-----------------------------------------------------------------------------
(* Static tables *)

\* path.extname(filePath).toLowerCase()
extname(f) ==
  CASE f = "a.ts" -> ".ts"
    [] f = "b.go" -> ".go"
    [] OTHER -> ".txt"

\* (mutation of getLanguageFromFile: langMap[ext] || 'typescript')
getLanguageFromFileDefault(f) ==
  LET ext == extname(f) IN
  CASE ext \in {".ts", ".tsx"} -> "typescript"
    [] ext \in {".js", ".jsx", ".mjs", ".cjs"} -> "javascript"
    [] ext = ".py" -> "python"
    [] ext = ".go" -> "go"
    [] ext = ".rs" -> "rust"
    [] OTHER -> "typescript"

\* langMap[ext] || null  ("none" stands for null)
getLanguageFromFile(f) ==
  LET ext == extname(f) IN
  CASE ext \in {".ts", ".tsx"} -> "typescript"
    [] ext \in {".js", ".jsx", ".mjs", ".cjs"} -> "javascript"
    [] ext = ".py" -> "python"
    [] ext = ".go" -> "go"
    [] ext = ".rs" -> "rust"
    [] OTHER -> "none"

Langs == {"typescript", "go"}

\* commands[language] || null: "fallback" (a primary and a fallback command),
\* "primary" (fallback: null), "none" (no entry)
getLSPCommand(lang) ==
  CASE lang \in {"typescript", "javascript", "python"} -> "fallback"
    [] lang = "go" -> "primary"
    [] OTHER -> "none"

-----------------------------------------------------------------------------
VARIABLES
  servers,          \* this.servers: the Map's entries in insertion order
  initialized,      \* this.initialized: the languages mapped to true
  requestId,        \* this.requestId
  pendingRequests,  \* this.pendingRequests: the ids that have an entry
  timers,           \* the ids whose timeout timer is armed
  outcome,          \* per id, the state of the promise sendRequest returned
  procs,            \* the subprocesses spawn() created
  stdin,            \* per subprocess, the frames written to its stdin
  delivered,        \* per id, the message handed to handleMessage and the
                    \* subprocess it came from (history): its result, or
                    \* its error's message (val) and code
  ops,              \* the async calls of the host in flight
  faults,           \* the faults of the environment so far (history)
  sent,             \* decoder: the messages the server framed and wrote
  stream,           \* decoder: the bytes of those frames
  pos,              \* decoder: the bytes delivered to the 'data' listener
  buffer,           \* setupMessageHandler: let buffer (UTF-16 code units)
  contentLength,    \* setupMessageHandler: let contentLength
  dispatched,       \* decoder: the messages passed to handleMessage
  arg,              \* formatting: the function applied and its argument
  ret               \* formatting: what the function returned

mvars == <<servers, initialized, requestId, pendingRequests, timers, outcome,
           procs, stdin, delivered, ops, faults>>
cvars == <<sent, stream, pos, buffer, contentLength, dispatched>>
fvars == <<arg, ret>>
vars == <<mvars, cvars, fvars>>

\* A subprocess: st is "none" (not spawned), "live", "failed" (the spawn
\* failed, its 'error' event is due), "gone" (that event was emitted) or
\* "exited"; handlers tells that setupMessageHandler attached its listeners;
\* killed that kill() was called on it; seen counts the frames it had read
\* when it exited; respawn (history) tells that it was spawned after a
\* registered server of its language had exited; epipe is "due" when a write
\* to its stdin failed in the stream and the stream's 'error' event is to
\* come, "uncaught" once that event was emitted.
NoProc == [lang |-> "none", st |-> "none", handlers |-> FALSE,
           killed |-> FALSE, seen |-> 0, respawn |-> FALSE, epipe |-> "no"]
NoMsg == [kind |-> "none", id |-> 0, val |-> 0, from |-> 0, code |-> 0]
Unsent == [st |-> "unsent", val |-> 0, why |-> ""]
Pending == [st |-> "pending", val |-> 0, why |-> ""]
OpIdle == [kind |-> "none", pc |-> "idle", file |-> "", lang |-> "none",
           method |-> "", stage |-> 0, attempt |-> 0, proc |-> 0, req |-> 0,
           cur |-> 0, res |-> ""]

\* null and undefined
Null == [t |-> "null"]

\* no formatting function has been called
FormatIdle == arg = Null /\ ret = Null

\* constructor
MainInit ==
  /\ servers = <<>>
  /\ initialized = {}
  /\ requestId = 0
  /\ pendingRequests = {}
  /\ timers = {}
  /\ outcome = [i \in Ids |-> Unsent]
  /\ procs = [p \in Procs |-> NoProc]
  /\ stdin = [p \in Procs |-> <<>>]
  /\ delivered = [i \in Ids |-> NoMsg]
  /\ ops = [o \in OpIds |-> OpIdle]
  /\ faults = 0

\* setupMessageHandler's closure state before any data
DecoderInit ==
  /\ buffer = <<>>
  /\ contentLength = -1
  /\ dispatched = <<>>
  /\ pos = 0

Init ==
  /\ MainInit
  /\ DecoderInit
  /\ sent = <<>>
  /\ stream = <<>>
  /\ FormatIdle

-----------------------------------------------------------------------------
(* Map operations on this.servers *)

\* the place of the entry of key lang, 0 when the Map has none
IndexOf(s, lang) ==
  IF \E k \in 1..Len(s) : s[k].lang = lang
  THEN CHOOSE k \in 1..Len(s) : s[k].lang = lang
  ELSE 0

ServersHas(lang) == IndexOf(servers, lang) > 0
ServersGet(lang) ==
  IF ServersHas(lang) THEN servers[IndexOf(servers, lang)].proc ELSE 0

\* Map.prototype.set: an existing key keeps its place, a new key is appended
ServersSet(s, lang, p) ==
  IF IndexOf(s, lang) > 0
  THEN [s EXCEPT ![IndexOf(s, lang)] = [lang |-> lang, proc |-> p]]
  ELSE Append(s, [lang |-> lang, proc |-> p])

\* Map.prototype.delete
ServersDelete(s, lang) ==
  LET k == IndexOf(s, lang) IN
  IF k = 0 THEN s ELSE SubSeq(s, 1, k - 1) \o SubSeq(s, k + 1, Len(s))

\* A live Map iterator (the for-of of shutdown) after the entry at place k was
\* deleted: the entries behind it move up, and so does an iterator past k.
AdjustCursors(f, k) ==
  [o \in OpIds |->
     IF f[o].kind = "shutdown" /\ k > 0 /\ k <= f[o].cur
     THEN [f[o] EXCEPT !.cur = @ - 1] ELSE f[o]]

-----------------------------------------------------------------------------
(* Scheduling *)

Settled(i) == outcome[i].st \in {"resolved", "rejected"}

\* The op has a continuation to run (a microtask is queued for it).
Runnable(o) ==
  \/ ops[o].pc \in {"ensure", "start", "graceCont", "send", "shutIter"}
  \/ ops[o].pc \in {"initWait", "queryWait", "shutWait"} /\ Settled(ops[o].req)

\* The host has died of an uncaught exception: nothing runs any more.
Aborted == \E p \in Procs : procs[p].epipe = "uncaught"

NoRunnable == ~Aborted /\ \A o \in OpIds : ~Runnable(o)

\* The environment behaves (ok), or spends one of the faults the model follows.
Fault(ok) ==
  IF ok THEN UNCHANGED faults
  ELSE faults < MaxFaults /\ faults' = faults + 1

FreeProcs == {p \in Procs : procs[p].st = "none"}
NextProc == CHOOSE p \in FreeProcs : \A q \in FreeProcs : p <= q

-----------------------------------------------------------------------------
(* Calls of the host *)

FirstIdle(o) ==
  /\ ops[o].pc = "idle"
  /\ \A o2 \in OpIds : o2 < o => ops[o2].pc # "idle"

CallStartServer(o, lang) ==
  /\ NoRunnable
  /\ FirstIdle(o)
  /\ ops' = [ops EXCEPT ![o] = [OpIdle EXCEPT !.kind = "start", !.pc = "start",
                                              !.lang = lang]]
  /\ UNCHANGED <<servers, initialized, requestId, pendingRequests, timers,
                 outcome, procs, stdin, delivered>>
  /\ UNCHANGED faults
  /\ UNCHANGED <<cvars, fvars>>

\* goToDefinition, findReferences, getHoverInfo, getDocumentSymbols: the four
\* share one control flow and differ in the method and the result's format.
CallQuery(o, f, method) ==
  /\ NoRunnable
  /\ FirstIdle(o)
  /\ ops' = [ops EXCEPT ![o] = [OpIdle EXCEPT !.kind = "query", !.pc = "ensure",
                                              !.file = f, !.method = method,
                                              !.lang = getLanguageFromFile(f),
                                              !.stage = 1]]
  /\ UNCHANGED <<servers, initialized, requestId, pendingRequests, timers,
                 outcome, procs, stdin, delivered>>
  /\ UNCHANGED faults
  /\ UNCHANGED <<cvars, fvars>>

CallShutdown(o) ==
  /\ NoRunnable
  /\ FirstIdle(o)
  /\ ops' = [ops EXCEPT ![o] = [OpIdle EXCEPT !.kind = "shutdown",
                                              !.pc = "shutIter"]]
  /\ UNCHANGED <<servers, initialized, requestId, pendingRequests, timers,
                 outcome, procs, stdin, delivered>>
  /\ UNCHANGED faults
  /\ UNCHANGED <<cvars, fvars>>

-----------------------------------------------------------------------------
(* ensureServerForFile and startServer *)

\* Where a query operation goes on once ensureServerForFile has returned:
\* after the first call, to openFile (which calls it again); after the
\* second, to fs.readFile.
AfterEnsure(op) ==
  IF op.stage = 1 THEN [op EXCEPT !.pc = "ensure", !.stage = 2]
  ELSE [op EXCEPT !.pc = "read"]

\* startServer returns val to its caller.
StartReturn(op, val) ==
  IF op.kind = "start"
  THEN [op EXCEPT !.pc = "done", !.res = IF val THEN "true" ELSE "false"]
  ELSE AfterEnsure(op)

Ensure(o) ==
  /\ ops[o].pc = "ensure"
  /\ ops' = [ops EXCEPT ![o] =
       IF ops[o].lang = "none"
       THEN [@ EXCEPT !.pc = "done", !.res = "unsupported"]
       ELSE IF ops[o].lang \in initialized THEN AfterEnsure(@)
       ELSE [@ EXCEPT !.pc = "start"]]
  /\ UNCHANGED <<servers, initialized, requestId, pendingRequests, timers,
                 outcome, procs, stdin, delivered>>
  /\ UNCHANGED faults
  /\ UNCHANGED <<cvars, fvars>>

\* A registered server of the language has exited without kill() (history).
CrashedBefore(lang) ==
  \E p \in Procs : /\ procs[p].lang = lang
                   /\ procs[p].st = "exited"
                   /\ procs[p].handlers
                   /\ ~procs[p].killed

\* spawn(cmd, args): the OS starts the process, or the spawn fails (the
\* command is not installed) and an 'error' event follows.
Spawn(o, attempt) ==
  /\ FreeProcs # {}
  /\ \E st \in {"live", "failed"} :
       /\ procs' = [procs EXCEPT ![NextProc] =
                      [NoProc EXCEPT !.lang = ops[o].lang, !.st = st,
                                     !.respawn = CrashedBefore(ops[o].lang)]]
       /\ Fault(st = "live")
  /\ ops' = [ops EXCEPT ![o] = [@ EXCEPT !.pc = "grace", !.proc = NextProc,
                                         !.attempt = attempt]]

\* (mutation of StartEntry: without the servers.has test)
StartEntryAlwaysSpawns(o) ==
  /\ ops[o].pc = "start"
  /\ IF getLSPCommand(ops[o].lang) = "none"
     THEN /\ ops' = [ops EXCEPT ![o] = StartReturn(@, FALSE)]
          /\ UNCHANGED <<procs, faults>>
     ELSE Spawn(o, 1)
  /\ UNCHANGED <<servers, initialized, requestId, pendingRequests, timers,
                 outcome, stdin, delivered>>
  /\ UNCHANGED <<cvars, fvars>>

\* startServer up to its first await: the already-started test, the command
\* lookup, the primary spawn
StartEntry(o) ==
  /\ ops[o].pc = "start"
  /\ IF ServersHas(ops[o].lang)
     THEN /\ ops' = [ops EXCEPT ![o] = StartReturn(@, TRUE)]
          /\ UNCHANGED <<procs, faults>>
     ELSE IF getLSPCommand(ops[o].lang) = "none"
     THEN /\ ops' = [ops EXCEPT ![o] = StartReturn(@, FALSE)]
          /\ UNCHANGED <<procs, faults>>
     ELSE Spawn(o, 1)
  /\ UNCHANGED <<servers, initialized, requestId, pendingRequests, timers,
                 outcome, stdin, delivered>>
  /\ UNCHANGED <<cvars, fvars>>

\* tryStartServer's 'error' listener: resolve(null)
SpawnError(p) ==
  /\ NoRunnable
  /\ procs[p].st = "failed"
  /\ procs' = [procs EXCEPT ![p].st = "gone"]
  /\ ops' = [o \in OpIds |->
               IF ops[o].pc = "grace" /\ ops[o].proc = p
               THEN [ops[o] EXCEPT !.pc = "graceCont", !.proc = 0]
               ELSE ops[o]]
  /\ UNCHANGED <<servers, initialized, requestId, pendingRequests, timers,
                 outcome, stdin, delivered>>
  /\ UNCHANGED faults
  /\ UNCHANGED <<cvars, fvars>>

\* tryStartServer's 500 ms timer: resolve(serverProcess).  A failed spawn
\* raises its 'error' on the next tick, long before the timer.
GraceTimer(o) ==
  /\ NoRunnable
  /\ ops[o].pc = "grace"
  /\ procs[ops[o].proc].st # "failed"
  /\ ops' = [ops EXCEPT ![o].pc = "graceCont"]
  /\ UNCHANGED <<servers, initialized, requestId, pendingRequests, timers,
                 outcome, procs, stdin, delivered>>
  /\ UNCHANGED faults
  /\ UNCHANGED <<cvars, fvars>>

\* resolve / reject of the promise of request id: a promise settles once, a
\* later resolve or reject does nothing
Settle(out, id, new) ==
  IF out[id].st = "pending" THEN [out EXCEPT ![id] = new] ELSE out

\* The outcome of a request whose stdin.write threw: the executor of the
\* promise rejects it with the error thrown.
WriteFailed == [st |-> "rejected", val |-> 0, why |-> "write"]

\* What a stdin.write does: the frame goes out ("ok"); the call throws
\* ("throw"); or the call returns and the stream fails afterwards ("event":
\* EPIPE, the pipe's other end is closed), which the stream reports as an
\* 'error' event.
Writes == {"ok", "throw", "event"}

\* A failing write costs the environment a fault.
WriteFault(w) == Fault(w = "ok")

\* the subprocesses after a write to p's stdin
AfterWrite(pr, p, w) ==
  IF w = "event" THEN [pr EXCEPT ![p].epipe = "due"] ELSE pr

\* (mutation of SendRequest: the id is this.requestId + 1 and the counter is
\* not stored back)
SendRequestNoIncrement(p, method, f, w) ==
  /\ requestId < MaxReq
  /\ requestId' = requestId
  /\ pendingRequests' = pendingRequests \cup {requestId + 1}
  /\ timers' = timers \cup {requestId + 1}
  /\ outcome' = [outcome EXCEPT ![requestId + 1] =
                   IF w = "throw" THEN WriteFailed ELSE Pending]
  /\ stdin' = IF w = "ok"
              THEN [stdin EXCEPT ![p] =
                      Append(@, [m |-> method, id |-> requestId + 1,
                                 file |-> f])]
              ELSE stdin

\* (mutation of SendRequest: the frame is put in front of what is already
\* queued for the subprocess)
SendRequestJumpsQueue(p, method, f, w) ==
  /\ requestId < MaxReq
  /\ requestId' = requestId + 1
  /\ pendingRequests' = pendingRequests \cup {requestId + 1}
  /\ timers' = timers \cup {requestId + 1}
  /\ outcome' = [outcome EXCEPT ![requestId + 1] =
                   IF w = "throw" THEN WriteFailed ELSE Pending]
  /\ stdin' = IF w = "ok"
              THEN [stdin EXCEPT ![p] =
                      <<[m |-> method, id |-> requestId + 1, file |-> f]>>
                        \o @]
              ELSE stdin

\* sendRequest once the server is known to be p: allocate the id, register
\* the entry, arm the timer, write the frame.  A write that throws leaves the
\* entry and the timer behind and rejects the promise.
SendRequest(p, method, f, w) ==
  /\ requestId < MaxReq
  /\ requestId' = requestId + 1
  /\ pendingRequests' = pendingRequests \cup {requestId + 1}
  /\ timers' = timers \cup {requestId + 1}
  /\ outcome' = [outcome EXCEPT ![requestId + 1] =
                   IF w = "throw" THEN WriteFailed ELSE Pending]
  /\ stdin' = IF w = "ok"
              THEN [stdin EXCEPT ![p] =
                      Append(@, [m |-> method, id |-> requestId + 1,
                                 file |-> f])]
              ELSE stdin

\* sendNotification: a write to the server registered now, if there is one
SendNotification(sin, lang, method, f) ==
  IF ServersHas(lang)
  THEN [sin EXCEPT ![ServersGet(lang)] =
          Append(@, [m |-> method, id |-> 0, file |-> f])]
  ELSE sin

\* (mutation of GraceCont: the fallback is tried without the test that the
\* language has one)
GraceContFallbackUntested(o) ==
  /\ ops[o].pc = "graceCont"
  /\ IF ops[o].proc = 0
     THEN /\ IF ops[o].attempt = 1
             THEN Spawn(o, 2)
             ELSE /\ ops' = [ops EXCEPT ![o] = StartReturn(@, FALSE)]
                  /\ UNCHANGED <<procs, faults>>
          /\ UNCHANGED <<servers, requestId, pendingRequests, timers, outcome,
                         stdin>>
     ELSE /\ servers' = ServersSet(servers, ops[o].lang, ops[o].proc)
          /\ \E w \in Writes :
               /\ SendRequest(ops[o].proc, "initialize", "", w)
               /\ WriteFault(w)
               /\ procs' = AfterWrite([procs EXCEPT
                                         ![ops[o].proc].handlers = TRUE],
                                      ops[o].proc, w)
          /\ ops' = [ops EXCEPT ![o] = [@ EXCEPT !.pc = "initWait",
                                                 !.req = requestId + 1]]
  /\ UNCHANGED <<initialized, delivered>>
  /\ UNCHANGED <<cvars, fvars>>

\* startServer after tryStartServer has resolved
GraceCont(o) ==
  /\ ops[o].pc = "graceCont"
  /\ IF ops[o].proc = 0
     THEN /\ IF ops[o].attempt = 1 /\ getLSPCommand(ops[o].lang) = "fallback"
             THEN Spawn(o, 2)
             ELSE /\ ops' = [ops EXCEPT ![o] = StartReturn(@, FALSE)]
                  /\ UNCHANGED <<procs, faults>>
          /\ UNCHANGED <<servers, requestId, pendingRequests, timers, outcome,
                         stdin>>
     ELSE /\ servers' = ServersSet(servers, ops[o].lang, ops[o].proc)
          /\ \E w \in Writes :
               /\ SendRequest(ops[o].proc, "initialize", "", w)
               /\ WriteFault(w)
               /\ procs' = AfterWrite([procs EXCEPT
                                         ![ops[o].proc].handlers = TRUE],
                                      ops[o].proc, w)
          /\ ops' = [ops EXCEPT ![o] = [@ EXCEPT !.pc = "initWait",
                                                 !.req = requestId + 1]]
  /\ UNCHANGED <<initialized, delivered>>
  /\ UNCHANGED <<cvars, fvars>>

\* startServer after the initialize request has settled.  A rejection goes
\* to the catch, and so does the TypeError of initResult.capabilities when
\* the request was resolved with undefined (0).
InitCont(o) ==
  /\ ops[o].pc = "initWait"
  /\ Settled(ops[o].req)
  /\ IF outcome[ops[o].req].st = "resolved" /\ outcome[ops[o].req].val # 0
     THEN \E w \in Writes :
            /\ w # "ok" => ServersHas(ops[o].lang)
            /\ WriteFault(w)
            /\ procs' = AfterWrite(procs, ServersGet(ops[o].lang), w)
            /\ stdin' = IF w = "ok"
                        THEN SendNotification(stdin, ops[o].lang,
                                              "initialized", "")
                        ELSE stdin
            /\ IF w # "throw"
               THEN /\ initialized' = initialized \cup {ops[o].lang}
                    /\ ops' = [ops EXCEPT ![o] = StartReturn(@, TRUE)]
               ELSE /\ ops' = [ops EXCEPT ![o] = StartReturn(@, FALSE)]
                    /\ UNCHANGED initialized
     ELSE /\ ops' = [ops EXCEPT ![o] = StartReturn(@, FALSE)]
          /\ UNCHANGED <<stdin, initialized, faults, procs>>
  /\ UNCHANGED <<servers, requestId, pendingRequests, timers, outcome,
                 delivered>>
  /\ UNCHANGED <<cvars, fvars>>

-----------------------------------------------------------------------------
(* openFile and the query *)

\* openFile after fs.readFile: on success the didOpen notification; a failed
\* read, or a write that throws, returns false from the catch, which the query
\* operations do not look at.
ReadDone(o, ok) ==
  /\ NoRunnable
  /\ ops[o].pc = "read"
  /\ \E w \in Writes :
       /\ w # "ok" => (ok /\ ServersHas(ops[o].lang))
       /\ stdin' = IF ok /\ w = "ok"
                   THEN SendNotification(stdin, ops[o].lang,
                                         "textDocument/didOpen", ops[o].file)
                   ELSE stdin
       /\ procs' = AfterWrite(procs, ServersGet(ops[o].lang), w)
       /\ Fault(ok /\ w = "ok")
  /\ ops' = [ops EXCEPT ![o].pc = "send"]
  /\ UNCHANGED <<servers, initialized, requestId, pendingRequests, timers,
                 outcome, delivered>>
  /\ UNCHANGED <<cvars, fvars>>

\* the query's sendRequest; without a registered server it rejects at once
\* and the operation returns {error}
SendQuery(o) ==
  /\ ops[o].pc = "send"
  /\ IF ServersHas(ops[o].lang)
     THEN /\ \E w \in Writes :
               /\ SendRequest(ServersGet(ops[o].lang), ops[o].method,
                              ops[o].file, w)
               /\ WriteFault(w)
               /\ procs' = AfterWrite(procs, ServersGet(ops[o].lang), w)
          /\ ops' = [ops EXCEPT ![o] = [@ EXCEPT !.pc = "queryWait",
                                                 !.req = requestId + 1]]
     ELSE /\ ops' = [ops EXCEPT ![o] = [@ EXCEPT !.pc = "done",
                                                 !.res = "notStarted"]]
          /\ UNCHANGED <<requestId, pendingRequests, timers, outcome, stdin,
                         faults, procs>>
  /\ UNCHANGED <<servers, initialized, delivered>>
  /\ UNCHANGED <<cvars, fvars>>

\* the query operation after its request has settled: the formatted result,
\* or from the catch {error: error.message}
QueryCont(o) ==
  /\ ops[o].pc = "queryWait"
  /\ Settled(ops[o].req)
  /\ ops' = [ops EXCEPT ![o] = [@ EXCEPT !.pc = "done",
                                         !.res = outcome[ops[o].req].st]]
  /\ UNCHANGED <<servers, initialized, requestId, pendingRequests, timers,
                 outcome, procs, stdin, delivered>>
  /\ UNCHANGED faults
  /\ UNCHANGED <<cvars, fvars>>

-----------------------------------------------------------------------------
(* shutdown *)

\* The head of the for-of loop: the next entry's shutdown request, or, the
\* entries exhausted, the three clear() calls.
ShutIter(o) ==
  /\ ops[o].pc = "shutIter"
  /\ IF ops[o].cur < Len(servers)
     THEN /\ \E w \in Writes :
               /\ SendRequest(servers[ops[o].cur + 1].proc, "shutdown", "", w)
               /\ WriteFault(w)
               /\ procs' = AfterWrite(procs, servers[ops[o].cur + 1].proc, w)
          /\ ops' = [ops EXCEPT ![o] =
                       [@ EXCEPT !.pc = "shutWait",
                                 !.lang = servers[ops[o].cur + 1].lang,
                                 !.proc = servers[ops[o].cur + 1].proc,
                                 !.req = requestId + 1,
                                 !.cur = @ + 1]]
          /\ UNCHANGED <<servers, initialized>>
     ELSE /\ servers' = <<>>
          /\ initialized' = {}
          /\ pendingRequests' = {}
          /\ ops' = [o2 \in OpIds |->
                       IF o2 = o THEN [ops[o2] EXCEPT !.pc = "done"]
                       ELSE IF ops[o2].kind = "shutdown"
                       THEN [ops[o2] EXCEPT !.cur = 0]
                       ELSE ops[o2]]
          /\ UNCHANGED <<requestId, timers, outcome, stdin, faults, procs>>
  /\ UNCHANGED delivered
  /\ UNCHANGED <<cvars, fvars>>

\* The loop's body after the shutdown request has settled (.catch swallows a
\* rejection): the exit notification, then server.kill().  A write that throws
\* in sendNotification leaves the try block for its empty catch, past the
\* kill.
ShutCont(o) ==
  /\ ops[o].pc = "shutWait"
  /\ Settled(ops[o].req)
  /\ \E w \in Writes :
       /\ w # "ok" => ServersHas(ops[o].lang)
       /\ WriteFault(w)
       /\ stdin' = IF w = "ok"
                   THEN SendNotification(stdin, ops[o].lang, "exit", "")
                   ELSE stdin
       /\ procs' = IF w = "throw" THEN procs
                   ELSE [AfterWrite(procs, ServersGet(ops[o].lang), w)
                           EXCEPT ![ops[o].proc].killed =
                                    (@ \/ procs[ops[o].proc].st = "live")]
  /\ ops' = [ops EXCEPT ![o].pc = "shutIter"]
  /\ UNCHANGED <<servers, initialized, requestId, pendingRequests, timers,
                 outcome, delivered>>
  /\ UNCHANGED <<cvars, fvars>>

-----------------------------------------------------------------------------
(* Events: stdout data, timers, process exit *)

\* The message of an error object: a number stands for the text, 0 for the
\* empty text (or none).
GenericMessage == 99   \* the fixed text of handleMessage's fallback

\* reject(new Error(message.error.message || <fixed text>)): the rejection holds
\* the message of the server's error object, or the generic text when that
\* is empty
ErrorRejection(err) ==
  [st |-> "rejected",
   val |-> IF err.message # 0 THEN err.message ELSE GenericMessage,
   why |-> "error"]

\* What the Error of a rejection holds of an error object: its message.  An
\* Error built from a text has no code (0) and no data.
ErrorOf(out) == [code |-> 0, message |-> out.val]

\* (mutation of HandleMessage: the oldest entry is settled, whatever the id)
HandleMessageOldest(id, kind, val) ==
  IF id \in pendingRequests
  THEN LET j == CHOOSE x \in pendingRequests :
                  \A y \in pendingRequests : x <= y IN
       /\ pendingRequests' = pendingRequests \ {j}
       /\ timers' = timers \ {j}
       /\ outcome' = Settle(outcome, j,
                        IF kind = "error" THEN ErrorRejection(val)
                        ELSE [st |-> "resolved", val |-> val, why |-> ""])
  ELSE UNCHANGED <<pendingRequests, timers, outcome>>

\* handleMessage for a message carrying id and either a result (val) or an
\* error object (val)
HandleMessage(id, kind, val) ==
  IF id \in pendingRequests
  THEN /\ pendingRequests' = pendingRequests \ {id}
       /\ timers' = timers \ {id}
       /\ outcome' = Settle(outcome, id,
                        IF kind = "error" THEN ErrorRejection(val)
                        ELSE [st |-> "resolved", val |-> val, why |-> ""])
  ELSE UNCHANGED <<pendingRequests, timers, outcome>>

\* The ids of the requests subprocess p has read: all written to it while it
\* lives, those written before its exit afterwards (what it answered before
\* exiting may still sit in the pipe).
Answerable(p) ==
  {stdin[p][k].id :
     k \in 1..(IF procs[p].st = "live" THEN Len(stdin[p]) ELSE procs[p].seen)}
  \ {0}

\* The payload (the result, or the text of the error's message) of the
\* server's answer to request id: every answer has its own.
PayloadOf(id) == 10 + id

\* The error objects a server answers request id with: a JSON-RPC code
\* (InternalError) and a message, which may be empty.
ErrorsOf(id) ==
  {[code |-> -32603, message |-> m] : m \in {PayloadOf(id), 0}}

\* A 'data' event of p's stdout holding one whole response (the framing
\* itself is the decoder's part, modelled below).
Deliver(p, id, kind) ==
  /\ NoRunnable
  /\ procs[p].handlers
  /\ procs[p].st \in {"live", "exited"}
  /\ id \in Answerable(p)
  /\ delivered[id] = NoMsg
  /\ IF kind = "result"
     THEN /\ HandleMessage(id, kind, PayloadOf(id))
          /\ delivered' = [delivered EXCEPT ![id] =
                             [kind |-> kind, id |-> id, val |-> PayloadOf(id),
                              from |-> p, code |-> 0]]
     ELSE \E err \in ErrorsOf(id) :
            /\ HandleMessage(id, kind, err)
            /\ delivered' = [delivered EXCEPT ![id] =
                               [kind |-> kind, id |-> id, val |-> err.message,
                                from |-> p, code |-> err.code]]
  /\ UNCHANGED <<servers, initialized, requestId, procs, stdin, ops>>
  /\ Fault(kind = "result")
  /\ UNCHANGED <<cvars, fvars>>

\* A 'data' event of p's stdout holding a message whose id was allocated by
\* this client but never written to p (the server numbers its own messages
\* from 1 as well, or answers an id it did not get): the listener hands it
\* to handleMessage like any other.
Stray(p, id) ==
  /\ NoRunnable
  /\ procs[p].handlers
  /\ procs[p].st = "live"
  /\ id <= requestId
  /\ id \notin Answerable(p)
  /\ delivered[id] = NoMsg
  /\ HandleMessage(id, "result", PayloadOf(id))
  /\ delivered' = [delivered EXCEPT ![id] =
                     [kind |-> "result", id |-> id, val |-> PayloadOf(id),
                      from |-> p, code |-> 0]]
  /\ UNCHANGED <<servers, initialized, requestId, procs, stdin, ops>>
  /\ Fault(FALSE)
  /\ UNCHANGED <<cvars, fvars>>

\* A 'data' event of p's stdout holding a request of the server to the
\* client ({id, method, params}: workspace/configuration,
\* client/registerCapability, ...).  The server numbers its requests itself,
\* from small integers.  The listener hands it to handleMessage like any other
\* message; it has neither result nor error, so message.result is undefined
\* (0).
ServerRequest(p, id) ==
  /\ NoRunnable
  /\ procs[p].handlers
  /\ procs[p].st = "live"
  /\ id <= requestId
  /\ delivered[id] = NoMsg
  /\ HandleMessage(id, "request", 0)
  /\ delivered' = [delivered EXCEPT ![id] =
                     [kind |-> "request", id |-> id, val |-> 0, from |-> p,
                      code |-> 0]]
  /\ UNCHANGED <<servers, initialized, requestId, procs, stdin, ops>>
  /\ Fault(FALSE)
  /\ UNCHANGED <<cvars, fvars>>

\* (mutation of OnTimeout: the entry is rejected but not deleted)
OnTimeoutKeepsEntry(id) ==
  IF id \in pendingRequests
  THEN /\ outcome' = Settle(outcome, id,
                        [st |-> "rejected", val |-> 0, why |-> "timeout"])
       /\ UNCHANGED pendingRequests
  ELSE UNCHANGED <<pendingRequests, outcome>>

\* the timeout callback of sendRequest
OnTimeout(id) ==
  IF id \in pendingRequests
  THEN /\ pendingRequests' = pendingRequests \ {id}
       /\ outcome' = Settle(outcome, id,
                        [st |-> "rejected", val |-> 0, why |-> "timeout"])
  ELSE UNCHANGED <<pendingRequests, outcome>>

TimerFire(id) ==
  /\ NoRunnable
  /\ id \in timers
  /\ timers' = timers \ {id}
  /\ OnTimeout(id)
  /\ UNCHANGED <<servers, initialized, requestId, procs, stdin, delivered, ops>>
  /\ Fault(FALSE)
  /\ UNCHANGED <<cvars, fvars>>

\* The 'error' event of p's stdin after a failed write.  No listener is
\* attached to server.stdin, so the emitter throws: an uncaught exception,
\* the host dies and with it every operation in flight.
StdinError(p) ==
  /\ NoRunnable
  /\ procs[p].epipe = "due"
  /\ procs' = [procs EXCEPT ![p].epipe = "uncaught"]
  /\ ops' = [o \in OpIds |->
               IF ops[o].pc \in {"idle", "done"} THEN ops[o]
               ELSE [ops[o] EXCEPT !.pc = "aborted", !.res = "uncaught"]]
  /\ UNCHANGED <<servers, initialized, requestId, pendingRequests, timers,
                 outcome, stdin, delivered>>
  /\ UNCHANGED faults
  /\ UNCHANGED <<cvars, fvars>>

\* (mutation of OnExit: this.initialized keeps the language)
OnExitKeepsInitialized(lang) ==
  /\ servers' = ServersDelete(servers, lang)
  /\ UNCHANGED initialized
  /\ ops' = AdjustCursors(ops, IndexOf(servers, lang))

\* the 'exit' listener setupMessageHandler attaches
OnExit(lang) ==
  /\ servers' = ServersDelete(servers, lang)
  /\ initialized' = initialized \ {lang}
  /\ ops' = AdjustCursors(ops, IndexOf(servers, lang))

\* Subprocess p exits (a crash, or the effect of kill()) and its 'exit' event
\* is emitted; a listener attached after that never runs.
ExitEvent(p) ==
  /\ NoRunnable
  /\ procs[p].st = "live"
  /\ procs' = [procs EXCEPT ![p].st = "exited", ![p].seen = Len(stdin[p])]
  /\ IF procs[p].handlers THEN OnExit(procs[p].lang)
     ELSE UNCHANGED <<servers, initialized, ops>>
  /\ UNCHANGED <<requestId, pendingRequests, timers, outcome, stdin, delivered>>
  /\ Fault(procs[p].killed)
  /\ UNCHANGED <<cvars, fvars>>

-----------------------------------------------------------------------------
Next ==
  \/ \E o \in OpIds, lang \in Langs : CallStartServer(o, lang)
  \/ \E o \in OpIds, f \in Files, m \in QueryMethods : CallQuery(o, f, m)
  \/ \E o \in OpIds : CallShutdown(o)
  \/ \E o \in OpIds : Ensure(o)
  \/ \E o \in OpIds : StartEntry(o)
  \/ \E p \in Procs : SpawnError(p)
  \/ \E o \in OpIds : GraceTimer(o)
  \/ \E o \in OpIds : GraceCont(o)
  \/ \E o \in OpIds : InitCont(o)
  \/ \E o \in OpIds, ok \in BOOLEAN : ReadDone(o, ok)
  \/ \E p \in Procs, id \in Ids : Stray(p, id)
  \/ \E p \in Procs, id \in Ids : ServerRequest(p, id)
  \/ \E p \in Procs : StdinError(p)
  \/ \E o \in OpIds : SendQuery(o)
  \/ \E o \in OpIds : QueryCont(o)
  \/ \E o \in OpIds : ShutIter(o)
  \/ \E o \in OpIds : ShutCont(o)
  \/ \E p \in Procs, id \in Ids, kind \in {"result", "error"} :
       Deliver(p, id, kind)
  \/ \E id \in Ids : TimerFire(id)
  \/ \E p \in Procs : ExitEvent(p)

Spec == Init /\ [][Next]_vars

-----------------------------------------------------------------------------
(* Claims about the correlation table, the registry and the operations *)

\* the ids of the requests written to subprocess p
RequestsOf(p) == {stdin[p][k].id : k \in 1..Len(stdin[p])} \ {0}

\* C1: responses for concurrently outstanding requests, delivered in any
\* order, are routed by id.  A response delivered for an outstanding request
\* (its id has an entry and its promise is pending) resolves that id's promise
\* with the response's own result, removes that entry and settles no other
\* promise; and a resolved promise always holds the result of the message
\* that carried its own id (never an error's, never another id's).
C1_ResponsesRoutedById ==
  /\ [](\A i \in Ids :
          outcome[i].st = "resolved" =>
            /\ delivered[i].kind \notin {"none", "error"}
            /\ delivered[i].id = i
            /\ outcome[i].val = delivered[i].val)
  /\ [][\A i \in Ids :
          (/\ delivered[i] = NoMsg
           /\ delivered'[i].kind = "result"
           /\ i \in pendingRequests
           /\ outcome[i].st = "pending") =>
            /\ outcome'[i] = [st |-> "resolved", val |-> delivered'[i].val,
                              why |-> ""]
            /\ pendingRequests' = pendingRequests \ {i}
            /\ \A j \in Ids \ {i} : outcome'[j] = outcome[j]]_vars

\* C1's case: two requests outstanding on one server at once, the later one
\* answered first and resolved with its own result while the earlier one
\* still waits.
C1_Witness ==
  \E p \in Procs : \E i, j \in RequestsOf(p) :
    /\ i < j
    /\ i \in pendingRequests
    /\ outcome[j] = [st |-> "resolved", val |-> PayloadOf(j), why |-> ""]

Timeout == [st |-> "rejected", val |-> 0, why |-> "timeout"]

C3_CrashRejectsPendingRequests ==
  [][\A p \in Procs :
       (/\ procs[p].st = "live"
        /\ procs'[p].st = "exited"
        /\ procs[p].handlers
        /\ ~procs[p].killed) =>
          \A i \in RequestsOf(p) \cap pendingRequests :
            outcome'[i].st = "rejected" /\ outcome'[i].why = "crashed"]_vars

\* C4: at every time at most one subprocess lives per language.
C4_OneLiveProcessPerLanguage ==
  \A lang \in Langs :
    Cardinality({p \in Procs : procs[p].lang = lang /\ procs[p].st = "live"})
      <= 1

\* C5: no query request is written to a server before that server's
\* initialize request has received a successful result.
C5_NoQueryBeforeInitializeResult ==
  \A p \in Procs : \A k \in 1..Len(stdin[p]) :
    stdin[p][k].m \in QueryMethods =>
      \E j \in 1..(k - 1) :
        /\ stdin[p][j].m = "initialize"
        /\ outcome[stdin[p][j].id].st = "resolved"

\* C6: every request that sendRequest registered is eventually consumed,
\* whatever else happens, given that timers fire: a request whose timer is no
\* longer armed (it has fired, or handleMessage has cleared it) has had its
\* promise resolved or rejected.
C6_ConsumedOnceTimerIsGone ==
  \A i \in Ids :
    (outcome[i].st # "unsent" /\ i \notin timers) => Settled(i)

\* C8: an id has an entry in the correlation table if and only if the
\* promise sendRequest returned for it is not yet resolved or rejected.
C8_EntryIffOutstanding ==
  \A i \in Ids : (i \in pendingRequests) <=> (outcome[i].st = "pending")

\* C9: a query request for a file is written to a server process only after
\* a textDocument/didOpen for that file was written to that same process.
C9_DidOpenBeforeQuery ==
  \A p \in Procs : \A k \in 1..Len(stdin[p]) :
    stdin[p][k].m \in QueryMethods =>
      \E j \in 1..(k - 1) :
        /\ stdin[p][j].m = "textDocument/didOpen"
        /\ stdin[p][j].file = stdin[p][k].file

C11_ShutdownKillsEveryServer ==
  [][\A o \in OpIds :
       (/\ ops[o].kind = "shutdown"
        /\ ops[o].pc = "shutWait"
        /\ ops'[o].pc = "shutIter") =>
          \/ procs[ops[o].proc].st # "live"
          \/ procs'[ops[o].proc].killed]_vars

\* what a query operation returns: a formatted result, or an error value for
\* an unsupported file type, a missing server or a rejected request
QueryResults == {"resolved", "rejected", "unsupported", "notStarted"}

\* C12: a query operation never ends by an exception.  One that has ended has
\* returned a value: the UnsupportedLanguage error for a file without
\* language, the not-started error when no server is registered at the send,
\* {error} exactly when its request was rejected (timeout, error response, a
\* failing write; a crashed server's request ends in its timeout), the result
\* otherwise.
C12_QueriesReturnErrorValues ==
  \A o \in OpIds :
    (ops[o].kind = "query" /\ ops[o].pc \in {"done", "aborted"}) =>
      /\ ops[o].pc = "done"
      /\ ops[o].res \in QueryResults
      /\ ops[o].lang = "none" <=> ops[o].res = "unsupported"
      /\ ops[o].res = "notStarted" => ops[o].lang # "none"
      /\ ops[o].res \in {"resolved", "rejected"} =>
           /\ ops[o].req # 0
           /\ Settled(ops[o].req)
           /\ ops[o].res = outcome[ops[o].req].st

\* the extensions langMap has an entry for
MappedExtensions ==
  {".ts", ".tsx", ".js", ".jsx", ".mjs", ".cjs", ".py", ".go", ".rs"}

\* C13: a query operation on a file whose extension has no language mapping
\* returns the UnsupportedLanguage error straight from ensureServerForFile:
\* it never enters startServer, openFile or sendRequest, and its step spawns
\* nothing, writes nothing and leaves the registry, the correlation table,
\* the timers and the id counter as they were.
C13_UnsupportedExtensionDoesNothing ==
  /\ [](\A o \in OpIds :
          (ops[o].kind = "query"
           /\ extname(ops[o].file) \notin MappedExtensions) =>
            /\ ops[o].pc \in {"ensure", "done"}
            /\ ops[o].pc = "done" => ops[o].res = "unsupported")
  /\ [][\A o \in OpIds :
          (/\ ops[o].kind = "query"
           /\ extname(ops[o].file) \notin MappedExtensions
           /\ ops'[o] # ops[o]) =>
            UNCHANGED <<servers, initialized, requestId, pendingRequests,
                        timers, outcome, procs, stdin>>]_vars

\* C13's case: a query on n.txt has returned unsupported.
C13_Witness ==
  \E o \in OpIds :
    /\ ops[o].kind = "query"
    /\ ops[o].file = "n.txt"
    /\ ops[o].pc = "done"
    /\ ops[o].res = "unsupported"

\* C14: the ids of the requests written to one subprocess are strictly
\* increasing in the order of the writes (so no two are equal), every id in
\* use is at most this.requestId, the counter never decreases, and a request
\* is only ever created with the id this.requestId + 1.
C14_RequestIdsUniqueIncreasing ==
  /\ [](\A p \in Procs : \A j, k \in 1..Len(stdin[p]) :
          (j < k /\ stdin[p][j].id # 0 /\ stdin[p][k].id # 0) =>
            stdin[p][j].id < stdin[p][k].id)
  /\ [](\A i \in Ids : outcome[i].st # "unsent" <=> i <= requestId)
  /\ [][/\ requestId' >= requestId
        /\ \A i \in Ids :
             (outcome[i].st = "unsent" /\ outcome'[i].st # "unsent") =>
               (i = requestId + 1 /\ requestId' = i)
        /\ \A i \in Ids :
             outcome[i].st # "unsent" => outcome'[i].st # "unsent"]_vars

\* C14's case: the only operation of the host, a query, had its server's
\* initialize request answered and then wrote its own request to the same
\* subprocess.
C14_Witness ==
  \E p \in Procs : \E i, j \in RequestsOf(p) :
    /\ i < j
    /\ Settled(i)
    /\ \A o \in OpIds : ops[o].kind = "query" \/ ops[o].pc = "idle"
    /\ \E o \in OpIds : ops[o].pc = "queryWait" /\ ops[o].req = j
    /\ Cardinality({o \in OpIds : ops[o].pc # "idle"}) = 1

\* C18: a message arriving on the stdout of one subprocess settles only a
\* request that was written to that same subprocess.
C18_MessageSettlesOwnServersRequest ==
  [][\A i \in Ids :
       (delivered[i] = NoMsg /\ delivered'[i] # NoMsg
        /\ i \notin RequestsOf(delivered'[i].from)) =>
          outcome'[i] = outcome[i]]_vars

\* C19: a subprocess that exited during the grace window of startServer (it
\* had read nothing and no listener was attached) is not registered and is
\* written nothing.
C19_ExitInGraceWindowNotRegistered ==
  \A p \in Procs :
    (procs[p].st = "exited" /\ procs[p].seen = 0) =>
      /\ Len(stdin[p]) = 0
      /\ ServersGet(procs[p].lang) # p

\* the places of the didOpen notifications for file f in p's stdin
DidOpens(p, f) ==
  {k \in 1..Len(stdin[p]) :
     stdin[p][k].m = "textDocument/didOpen" /\ stdin[p][k].file = f}

\* C20: one subprocess is written at most one didOpen per file.
C20_AtMostOneDidOpenPerFile ==
  \A p \in Procs : \A f \in Files : Cardinality(DidOpens(p, f)) <= 1

\* C21: startServer is idempotent.  Called for a language whose registered
\* subprocess has not exited, it returns true and its step spawns nothing,
\* writes nothing and leaves the registry, the initialized flags, the
\* correlation table, the timers and the id counter as they were.
C21_StartServerIdempotent ==
  [][\A o \in OpIds :
       (/\ ops[o].kind = "start"
        /\ ops[o].pc = "start"
        /\ ServersHas(ops[o].lang)
        /\ procs[ServersGet(ops[o].lang)].st = "live"
        /\ ops'[o] # ops[o]) =>
          /\ ops'[o] = [ops[o] EXCEPT !.pc = "done", !.res = "true"]
          /\ UNCHANGED <<servers, initialized, requestId, pendingRequests,
                         timers, outcome, procs, stdin>>]_vars

\* C21's case: a startServer call has returned true without having spawned
\* or sent anything, the language's registered subprocess being alive.
C21_Witness ==
  \E o \in OpIds :
    /\ ops[o].kind = "start"
    /\ ops[o].pc = "done"
    /\ ops[o].res = "true"
    /\ ops[o].proc = 0
    /\ ops[o].req = 0
    /\ ServersHas(ops[o].lang)
    /\ procs[ServersGet(ops[o].lang)].st = "live"

-----------------------------------------------------------------------------
\* the subprocesses of a language whose spawn failed and whose 'error' event
\* was emitted
FailedSpawns(lang) ==
  {p \in Procs : procs[p].lang = lang /\ procs[p].st = "gone"}

\* C22: in startServer the fallback command is spawned only after the primary
\* spawn failed and only for a language that has a fallback; a call spawns at
\* most its primary and its fallback; and when the last command the language
\* has failed to spawn, the call returns false in a step that registers
\* nothing, writes nothing, spawns nothing and leaves the correlation table
\* as it was.
C22_FallbackOnlyAfterPrimaryFailed ==
  /\ [](\A o \in OpIds :
          /\ ops[o].attempt \in 0..2
          /\ ops[o].attempt = 2 => getLSPCommand(ops[o].lang) = "fallback")
  /\ [][/\ \A p \in Procs :
             (procs[p].st = "none" /\ procs'[p].st # "none") =>
               \E o \in OpIds :
                 /\ ops'[o].proc = p
                 /\ procs'[p].lang = ops[o].lang
                 /\ \/ ops[o].pc = "start" /\ ops'[o].attempt = 1
                    \/ /\ ops[o].pc = "graceCont"
                       /\ ops[o].attempt = 1
                       /\ ops'[o].attempt = 2
                       /\ ops[o].proc = 0
                       /\ FailedSpawns(ops[o].lang) # {}
                       /\ getLSPCommand(ops[o].lang) = "fallback"
        /\ \A o \in OpIds :
             (/\ ops[o].pc = "graceCont"
              /\ ops[o].proc = 0
              /\ ops[o].attempt = 2 \/ getLSPCommand(ops[o].lang) # "fallback"
              /\ ops'[o] # ops[o]) =>
                /\ ops'[o] = StartReturn(ops[o], FALSE)
                /\ UNCHANGED <<servers, initialized, requestId,
                               pendingRequests, timers, outcome, procs,
                               stdin>>]_vars

\* C22's case: a startServer call whose primary and fallback spawns both
\* failed has returned false; nothing is registered or written.
C22_Witness ==
  \E o \in OpIds :
    /\ ops[o].kind = "start"
    /\ ops[o].pc = "done"
    /\ ops[o].res = "false"
    /\ ops[o].attempt = 2
    /\ Cardinality(FailedSpawns(ops[o].lang)) = 2
    /\ servers = <<>>
    /\ \A p \in Procs : stdin[p] = <<>>

\* the initialize request written to subprocess p has been resolved
InitializeResolved(p) ==
  \E j \in 1..Len(stdin[p]) :
    /\ stdin[p][j].m = "initialize"
    /\ outcome[stdin[p][j].id].st = "resolved"

\* C23: the handshake of every subprocess is ordered.  The first frame
\* written to it is its initialize request; an initialized notification is
\* written to it only behind its initialize request and only once that
\* request was resolved; and its language is marked initialized, the
\* subprocess being the registered one, only once that request was resolved
\* (never after a failed or timed-out initialize).
C23_HandshakeOrdered ==
  \A p \in Procs :
    /\ Len(stdin[p]) > 0 => stdin[p][1].m = "initialize"
    /\ \A k \in 1..Len(stdin[p]) :
         stdin[p][k].m = "initialized" =>
           \E j \in 1..(k - 1) :
             /\ stdin[p][j].m = "initialize"
             /\ outcome[stdin[p][j].id].st = "resolved"
    /\ (procs[p].lang \in initialized /\ ServersGet(procs[p].lang) = p) =>
         InitializeResolved(p)

\* the frames of requests (not notifications) among those written to p
RequestFrames(p) == SelectSeq(stdin[p], LAMBDA fr : fr.id # 0)

\* C24: the request frames are written to a subprocess in the order the
\* requests were issued.  What was written to a stdin stays as it is and a
\* step adds at most one whole frame behind it; the step that issues a
\* request (allocates its id) is the step that writes its frame, behind all
\* frames written before, to one subprocess and to no other; so the ids of a
\* subprocess's request frames increase strictly in the order of the writes,
\* whatever the order in which the responses arrive.
C24_RequestFramesInIssueOrder ==
  /\ [](\A p \in Procs : \A k \in 1..(Len(RequestFrames(p)) - 1) :
          RequestFrames(p)[k].id < RequestFrames(p)[k + 1].id)
  /\ [][/\ \A p \in Procs :
             /\ Len(stdin'[p]) \in {Len(stdin[p]), Len(stdin[p]) + 1}
             /\ SubSeq(stdin'[p], 1, Len(stdin[p])) = stdin[p]
        /\ \A p \in Procs :
             (Len(stdin'[p]) > Len(stdin[p])
              /\ stdin'[p][Len(stdin'[p])].id # 0) =>
               /\ stdin'[p][Len(stdin'[p])].id = requestId + 1
               /\ requestId' = requestId + 1
               /\ \A q \in Procs \ {p} : stdin'[q] = stdin[q]
        /\ requestId' # requestId =>
             \A p \in Procs :
               Len(stdin'[p]) > Len(stdin[p]) =>
                 stdin'[p][Len(stdin'[p])].id = requestId']_vars

\* C24's case: two requests were written to one subprocess, the earlier in
\* front, and the later one's response arrived first.
C24_Witness ==
  \E p \in Procs : \E k, l \in 1..Len(stdin[p]) :
    /\ k < l
    /\ stdin[p][k].id # 0
    /\ stdin[p][k].id < stdin[p][l].id
    /\ delivered[stdin[p][k].id] = NoMsg
    /\ delivered[stdin[p][l].id].from = p

\* C25: a message carrying the id of a pending request (entry present,
\* promise pending) and an error object rejects that request with an outcome
\* that holds the server's error object (its code and its message), removes
\* the entry and clears the timer, and changes no other entry, timer or
\* outcome; a request rejected so has no timer armed and its outcome never
\* changes again.
C25_ErrorResponseRejectsWithPayload ==
  /\ [](\A i \in Ids : outcome[i].why = "error" => i \notin timers)
  /\ [][\A i \in Ids :
          /\ (/\ delivered[i] = NoMsg
              /\ delivered'[i].kind = "error"
              /\ i \in pendingRequests
              /\ outcome[i].st = "pending") =>
                /\ outcome'[i].st = "rejected"
                /\ outcome'[i].why = "error"
                /\ ErrorOf(outcome'[i]) = [code |-> delivered'[i].code,
                                           message |-> delivered'[i].val]
                /\ pendingRequests' = pendingRequests \ {i}
                /\ timers' = timers \ {i}
                /\ \A j \in Ids \ {i} : outcome'[j] = outcome[j]
          /\ outcome[i].why = "error" => outcome'[i] = outcome[i]]_vars

\* C26: the exit of a subprocess that is not the one registered for its
\* language (it was replaced, or shutdown() has cleared the registry and a
\* newer server was started) leaves this.servers and this.initialized as they
\* were.
C26_LateExitSparesNewerServer ==
  [][\A p \in Procs :
       (/\ procs[p].st = "live"
        /\ procs'[p].st = "exited"
        /\ ServersGet(procs[p].lang) # p) =>
          /\ servers' = servers
          /\ initialized' = initialized]_vars

\* C27: when startServer returns false because its initialize request was
\* rejected (an error response, a timeout, a failed write), the language has
\* no entry in this.servers any more and the subprocess it spawned is killed
\* (or has exited).
C27_FailedHandshakeUnregisters ==
  [][\A o \in OpIds :
       (/\ ops[o].pc = "initWait"
        /\ outcome[ops[o].req].st = "rejected"
        /\ ops'[o].pc \notin {"initWait", "aborted"}) =>
          /\ IndexOf(servers', ops[o].lang) = 0
          /\ \/ procs'[ops[o].proc].st # "live"
             \/ procs'[ops[o].proc].killed]_vars

\* C28: a message of a server that carries a method (a request of the server
\* to the client) settles no request of the client, whatever id it carries:
\* the step that hands it to handleMessage changes no outcome, no entry and
\* no timer.
C28_ServerRequestSettlesNothing ==
  [][\A i \in Ids :
       (delivered[i] = NoMsg /\ delivered'[i].kind = "request") =>
         /\ outcome' = outcome
         /\ pendingRequests' = pendingRequests
         /\ timers' = timers]_vars

\* isAvailable(language): this.initialized.get(language) === true
isAvailable(lang) == lang \in initialized

\* getActiveLanguages(): the keys of this.initialized
getActiveLanguages == initialized

\* C29: in every reachable state a language that isAvailable reports, or
\* getActiveLanguages lists, has a subprocess registered in this.servers.
C29_AvailableImpliesRegistered ==
  \A lang \in Langs :
    (isAvailable(lang) \/ lang \in getActiveLanguages) => ServersHas(lang)

\* C30: once shutdown() has resolved, every other call of the host having
\* begun before it, no subprocess is registered, none is alive without
\* kill() having been called on it, and a startServer call still waiting for
\* its initialize result can still get one (its request has its entry, or is
\* settled), so that it does not wait for ever.
C30_NothingSurvivesShutdown ==
  \A o \in OpIds :
    (/\ ops[o].kind = "shutdown"
     /\ ops[o].pc = "done"
     /\ \A o2 \in OpIds \ {o} : o2 < o) =>
       /\ servers = <<>>
       /\ \A p \in Procs : procs[p].st = "live" => procs[p].killed
       /\ \A o2 \in OpIds :
            ops[o2].pc = "initWait" =>
              (ops[o2].req \in pendingRequests \/ Settled(ops[o2].req))

(* The frame decoder of setupMessageHandler's stdout listener *)

\* Bounds of the decoder's inputs.
MaxMsgs == 2     \* frames in one stream
MaxChunk == 12   \* bytes in one 'data' event

\* A JSON text is "{" payload "}"; the payload's characters are ASCII letters
\* and one non-ASCII letter, which UTF-8 encodes in two bytes (c3 a9).  "L"
\* stands for the header's field name with its colon and space, "?" for
\* U+FFFD.
Payloads == {<<"a">>, <<"e'">>, <<"a", "b">>}
PayloadChars == {"a", "b", "e'", "?"}
Digit == <<"1", "2", "3", "4", "5", "6", "7", "8", "9">>
DigitChars == {"0", "1", "2", "3", "4", "5", "6", "7", "8", "9"}
DigitVal(c) == IF c = "0" THEN 0 ELSE CHOOSE n \in 1..9 : Digit[n] = c
CRLFCRLF == <<"\r", "\n", "\r", "\n">>

\* JSON.stringify
Stringify(msg) == <<"{">> \o msg \o <<"}">>

\* the UTF-8 bytes of a string
RECURSIVE Utf8(_)
Utf8(str) ==
  IF str = <<>> THEN <<>>
  ELSE (IF Head(str) = "e'" THEN <<"c3", "a9">> ELSE <<Head(str)>>)
       \o Utf8(Tail(str))

\* the decimal digits of n
RECURSIVE Decimal(_)
Decimal(n) ==
  IF n < 10 THEN <<IF n = 0 THEN "0" ELSE Digit[n]>>
  ELSE Decimal(n \div 10) \o Decimal(n % 10)

\* `Content-Length: ${Buffer.byteLength(content)}\r\n\r\n` + content
Frame(msg) ==
  <<"L">> \o Decimal(Len(Utf8(Stringify(msg)))) \o CRLFCRLF
  \o Utf8(Stringify(msg))

RECURSIVE Frames(_)
Frames(msgs) ==
  IF msgs = <<>> THEN <<>> ELSE Frame(Head(msgs)) \o Frames(Tail(msgs))

\* Buffer.prototype.toString of one chunk: UTF-8 decoding, every byte of an
\* incomplete sequence becoming U+FFFD
RECURSIVE BufferToString(_)
BufferToString(bytes) ==
  IF bytes = <<>> THEN <<>>
  ELSE IF Head(bytes) = "c3" /\ Len(bytes) >= 2 /\ bytes[2] = "a9"
       THEN <<"e'">> \o BufferToString(SubSeq(bytes, 3, Len(bytes)))
  ELSE IF Head(bytes) \in {"c3", "a9"}
       THEN <<"?">> \o BufferToString(Tail(bytes))
  ELSE <<Head(bytes)>> \o BufferToString(Tail(bytes))

\* buffer.indexOf('\r\n\r\n'), counted from 1; 0 when absent
HeaderEnd(buf) ==
  LET hits == {k \in 1..(Len(buf) - 3) : SubSeq(buf, k, k + 3) = CRLFCRLF} IN
  IF hits = {} THEN 0 ELSE CHOOSE k \in hits : \A j \in hits : k <= j

\* parseInt of the digits starting at place k of header
RECURSIVE ParseInt(_, _, _)
ParseInt(header, k, acc) ==
  IF k <= Len(header) /\ header[k] \in DigitChars
  THEN ParseInt(header, k + 1, 10 * acc + DigitVal(header[k]))
  ELSE acc

\* header.match(/Content-Length:\s*(\d+)/i), then parseInt(match[1], 10);
\* -1 when there is no match (contentLength keeps its -1)
MatchContentLength(header) ==
  LET hits == {k \in 1..(Len(header) - 1) :
                 header[k] = "L" /\ header[k + 1] \in DigitChars} IN
  IF hits = {} THEN -1
  ELSE ParseInt(header, (CHOOSE k \in hits : \A j \in hits : k <= j) + 1, 0)

\* whether JSON.parse accepts the text
JsonOk(text) ==
  /\ Len(text) >= 2
  /\ text[1] = "{"
  /\ text[Len(text)] = "}"
  /\ \A k \in 2..(Len(text) - 1) : text[k] \in PayloadChars

\* JSON.parse of an accepted text
JsonParse(text) == SubSeq(text, 2, Len(text) - 1)

\* The while (true) loop of the listener, from the state d = [buf, cl, out]
\* to the state at its break.
RECURSIVE DecodeLoop(_)
DecodeLoop(d) ==
  LET he == HeaderEnd(d.buf)
      h == IF d.cl # -1 THEN [brk |-> FALSE, buf |-> d.buf, cl |-> d.cl]
           ELSE IF he = 0 THEN [brk |-> TRUE, buf |-> d.buf, cl |-> -1]
           ELSE [brk |-> FALSE,
                 buf |-> SubSeq(d.buf, he + 4, Len(d.buf)),
                 cl |-> MatchContentLength(SubSeq(d.buf, 1, he - 1))]
  IN
  IF h.brk \/ h.cl = -1 \/ Len(h.buf) < h.cl
  THEN [buf |-> h.buf, cl |-> h.cl, out |-> d.out]
  ELSE LET message == SubSeq(h.buf, 1, h.cl) IN
       DecodeLoop([buf |-> SubSeq(h.buf, h.cl + 1, Len(h.buf)),
                   cl |-> -1,
                   out |-> IF JsonOk(message)
                           THEN Append(d.out, JsonParse(message))
                           ELSE d.out])

\* One 'data' event carrying the next n bytes of the stream.
Data(n) ==
  /\ n >= 1
  /\ pos + n <= Len(stream)
  /\ LET chunk == SubSeq(stream, pos + 1, pos + n)
         d == DecodeLoop([buf |-> buffer \o BufferToString(chunk),
                          cl |-> contentLength, out |-> dispatched])
     IN /\ buffer' = d.buf
        /\ contentLength' = d.cl
        /\ dispatched' = d.out
  /\ pos' = pos + n
  /\ UNCHANGED <<sent, stream>>
  /\ UNCHANGED <<mvars, fvars>>

MsgSeqs == UNION {[1..n -> Payloads] : n \in 1..MaxMsgs}

\* The decoder fed any well-formed stream in any chunking.
DecoderSpecInit ==
  /\ MainInit
  /\ DecoderInit
  /\ FormatIdle
  /\ sent \in MsgSeqs
  /\ stream = Frames(sent)

DecoderNext == \E n \in 1..MaxChunk : Data(n)

DecoderSpec == DecoderSpecInit /\ [][DecoderNext]_vars

-----------------------------------------------------------------------------
(* Claims about the decoder *)

IsPrefix(a, b) == Len(a) <= Len(b) /\ SubSeq(b, 1, Len(a)) = a

\* C7: for any well-formed sequence of Content-Length frames, split at any
\* byte offsets across the deliveries, the decoder dispatches to
\* handleMessage exactly the original messages, in the original order, each
\* once: what it has dispatched is always a prefix of what was sent, and all
\* of it once every byte is delivered.
C7_DecoderReconstructsMessages ==
  /\ IsPrefix(dispatched, sent)
  /\ pos = Len(stream) => dispatched = sent


-----------------------------------------------------------------------------
(* The formatting functions of the query operations *)

\* Bounds of the formatting functions' inputs.
MaxCoord == 9     \* the largest line or character in a range
MaxLocs == 2      \* locations in one result
MaxItems == 2     \* entries in a list of hover contents
MaxChildren == 2  \* children of one symbol

\* JS truthiness of the values that occur here: null, undefined and the
\* empty string are falsy, objects and arrays are truthy.  A string is
\* [t |-> "string", v |-> its characters].
Truthy(x) == x # Null /\ x # [t |-> "string", v |-> <<>>]

\* a || b
Or(a, b) == IF Truthy(a) THEN a ELSE b

\* position: { line: line - 1, character: character - 1 } of a request
RequestPosition(line, character) ==
  [line |-> line - 1, character |-> character - 1]

\* uri.replace('file://', ''): the uri is its segments, the first 'file://'
\* among them removed
RemoveFileScheme(uri) ==
  LET hits == {k \in 1..Len(uri) : uri[k] = "file://"} IN
  IF hits = {} THEN uri
  ELSE LET k == CHOOSE x \in hits : \A y \in hits : x <= y IN
       SubSeq(uri, 1, k - 1) \o SubSeq(uri, k + 1, Len(uri))

\* (mutation of FormatLocation: endCharacter is passed through)
FormatLocationEndAsIs(loc) ==
  LET uri == Or(loc.uri, loc.targetUri)
      range == Or(loc.range, loc.targetRange) IN
  [file |-> IF Truthy(uri) THEN [t |-> "string", v |-> RemoveFileScheme(uri.v)]
            ELSE Null,
   line |-> IF Truthy(range) THEN range.start.line + 1 ELSE Null,
   character |-> IF Truthy(range) THEN range.start.character + 1 ELSE Null,
   endLine |-> IF Truthy(range) THEN range.end.line + 1 ELSE Null,
   endCharacter |-> IF Truthy(range) THEN range.end.character ELSE Null]

\* the function formatLocationResult maps over the locations
FormatLocation(loc) ==
  LET uri == Or(loc.uri, loc.targetUri)
      range == Or(loc.range, loc.targetRange) IN
  [file |-> IF Truthy(uri) THEN [t |-> "string", v |-> RemoveFileScheme(uri.v)]
            ELSE Null,
   line |-> IF Truthy(range) THEN range.start.line + 1 ELSE Null,
   character |-> IF Truthy(range) THEN range.start.character + 1 ELSE Null,
   endLine |-> IF Truthy(range) THEN range.end.line + 1 ELSE Null,
   endCharacter |-> IF Truthy(range) THEN range.end.character + 1 ELSE Null]

\* locations.map(f)
RECURSIVE MapLocations(_)
MapLocations(locs) ==
  IF locs = <<>> THEN <<>>
  ELSE <<FormatLocation(Head(locs))>> \o MapLocations(Tail(locs))

\* .filter(l => l.file)
RECURSIVE FilterFile(_)
FilterFile(ls) ==
  IF ls = <<>> THEN <<>>
  ELSE (IF Truthy(Head(ls).file) THEN <<Head(ls)>> ELSE <<>>)
       \o FilterFile(Tail(ls))

\* formatLocationResult: a result is null, one location ([t |-> "one"]) or an
\* array of locations ([t |-> "array"])
formatLocationResult(result) ==
  IF result = Null THEN [locations |-> <<>>]
  ELSE LET locations == IF result.t = "array" THEN result.items
                        ELSE <<result.loc>> IN
       [locations |-> FilterFile(MapLocations(locations))]

\* The ranges, uris and locations the model feeds in.
Ranges ==
  {[start |-> [line |-> l, character |-> c],
    end |-> [line |-> l2, character |-> c2]] :
     l \in {0, MaxCoord}, c \in {4}, l2 \in {MaxCoord}, c2 \in {0, 4}}
FileUri == [t |-> "string", v |-> <<"file://", "/a.ts">>]
Locations ==
  {[uri |-> FileUri, range |-> r, targetUri |-> Null, targetRange |-> Null] :
     r \in Ranges}
  \cup {[uri |-> Null, range |-> Null, targetUri |-> FileUri,
         targetRange |-> r] : r \in Ranges}
  \cup {[uri |-> Null, range |-> r, targetUri |-> Null, targetRange |-> Null] :
         r \in {CHOOSE x \in Ranges : TRUE}}
LocationResults ==
  {Null}
  \cup {[t |-> "one", loc |-> l] : l \in Locations}
  \cup {[t |-> "array", items |-> q] :
          q \in UNION {[1..n -> Locations] : n \in 0..MaxLocs}}

\* goToDefinition / findReferences: return this.formatLocationResult(result)
FormatLocations ==
  /\ arg.t = "formatLocationResult"
  /\ ret = Null
  /\ ret' = [t |-> "returned", v |-> formatLocationResult(arg.result)]
  /\ UNCHANGED <<arg, mvars, cvars>>

\* goToDefinition / findReferences / getHoverInfo: the position of the request
SendPosition ==
  /\ arg.t = "position"
  /\ ret = Null
  /\ ret' = [t |-> "returned",
             v |-> RequestPosition(arg.line, arg.character)]
  /\ UNCHANGED <<arg, mvars, cvars>>

\* A string value of characters cs
Str(cs) == [t |-> "string", v |-> cs]

\* (mutation of HoverEntry: c.value without the typeof test)
HoverEntryValueOnly(c) ==
  IF c.t = "object" THEN Or(c.value, Str(<<>>)) ELSE Str(<<>>)

\* c => typeof c === 'string' ? c : c.value || ''
HoverEntry(c) ==
  IF c.t = "string" THEN c ELSE Or(c.value, Str(<<>>))

\* contents.map(...).join('\n')
RECURSIVE JoinEntries(_)
JoinEntries(items) ==
  IF items = <<>> THEN <<>>
  ELSE IF Len(items) = 1 THEN HoverEntry(items[1]).v
  ELSE HoverEntry(items[1]).v \o <<"\n">> \o JoinEntries(Tail(items))

\* result.contents.value: undefined on a string and on an array
ValueOf(x) == IF x.t = "object" THEN x.value ELSE Null

\* getHoverInfo from the result of the request on: contents is a string, an
\* object with a value ([t |-> "object"]) or an array of these
\* ([t |-> "array"]); a result has contents and a range
HoverInfo(result) ==
  IF ~Truthy(result) THEN [info |-> Null]
  ELSE LET contents == result.contents
           content ==
             IF ~Truthy(contents) THEN Str(<<>>)
             ELSE IF contents.t = "string" THEN contents
             ELSE IF Truthy(ValueOf(contents)) THEN contents.value
             ELSE IF contents.t = "array" THEN Str(JoinEntries(contents.items))
             ELSE Str(<<>>)
       IN [info |-> content,
           range |-> IF Truthy(result.range)
                     THEN [start |-> [line |-> result.range.start.line + 1,
                                      character |->
                                        result.range.start.character + 1],
                           end |-> [line |-> result.range.end.line + 1,
                                    character |->
                                      result.range.end.character + 1]]
                     ELSE Null]

\* The hover contents the model feeds in.
Texts == {<<>>, <<"f">>, <<"f", "o">>}
HoverEntries ==
  {Str(cs) : cs \in Texts} \cup {[t |-> "object", value |-> Str(cs)] : cs \in Texts}
HoverContents ==
  HoverEntries
  \cup {[t |-> "array", items |-> q] :
          q \in UNION {[1..n -> HoverEntries] : n \in 0..MaxItems}}
HoverResults ==
  {Null}
  \cup {[contents |-> c, range |-> r] :
          c \in HoverContents, r \in {Null, CHOOSE x \in Ranges : TRUE}}

\* getHoverInfo after its request has resolved
Hover ==
  /\ arg.t = "hover"
  /\ ret = Null
  /\ ret' = [t |-> "returned", v |-> HoverInfo(arg.result)]
  /\ UNCHANGED <<arg, mvars, cvars>>

\* symbolKindMap: the labels of the kinds 1 to 26
symbolKindMap ==
  <<"File", "Module", "Namespace", "Package", "Class", "Method", "Property",
    "Field", "Constructor", "Enum", "Interface", "Function", "Variable",
    "Constant", "String", "Number", "Boolean", "Array", "Object", "Key",
    "Null", "EnumMember", "Struct", "Event", "Operator", "TypeParameter">>

\* symbolKindMap[sym.kind] || 'Unknown'
SymbolKind(kind) ==
  IF kind \in DOMAIN symbolKindMap THEN symbolKindMap[kind] ELSE "Unknown"

\* the entry formatSymbols pushes for sym at depth
SymbolEntry(sym, depth) ==
  [name |-> sym.name,
   kind |-> SymbolKind(sym.kind),
   depth |-> depth,
   line |-> IF Truthy(sym.range) THEN sym.range.start.line + 1 ELSE Null,
   endLine |-> IF Truthy(sym.range) THEN sym.range.end.line + 1 ELSE Null]

\* (mutation of formatSymbols: the children are formatted at the parent's
\* depth)
RECURSIVE formatSymbolsSameDepth(_, _)
formatSymbolsSameDepth(symbols, depth) ==
  IF symbols = <<>> THEN <<>>
  ELSE LET sym == Head(symbols) IN
       <<SymbolEntry(sym, depth)>>
       \o (IF Len(sym.children) > 0
           THEN formatSymbolsSameDepth(sym.children, depth)
           ELSE <<>>)
       \o formatSymbolsSameDepth(Tail(symbols), depth)

\* formatSymbols(symbols, depth)
RECURSIVE formatSymbols(_, _)
formatSymbols(symbols, depth) ==
  IF symbols = <<>> THEN <<>>
  ELSE LET sym == Head(symbols) IN
       <<SymbolEntry(sym, depth)>>
       \o (IF Len(sym.children) > 0
           THEN formatSymbols(sym.children, depth + 1)
           ELSE <<>>)
       \o formatSymbols(Tail(symbols), depth)

\* getDocumentSymbols after its request has resolved
DocumentSymbols(result) ==
  IF ~Truthy(result) THEN [symbols |-> <<>>]
  ELSE [symbols |-> formatSymbols(result.items, 0)]

\* The symbol trees the model feeds in, three levels at most, of known kinds
\* and of kinds outside 1..26.
SeqsUpTo(S, n) == UNION {[1..k -> S] : k \in 0..n}
InnerSymbols ==
  {[name |-> nm, kind |-> k, range |-> Null, children |-> <<>>] :
     nm \in {"x", "y"}, k \in {13, 27}}
MidSymbols ==
  {[name |-> "m", kind |-> k, range |-> Null, children |-> ch] :
     k \in {13, 0}, ch \in SeqsUpTo(InnerSymbols, MaxChildren)}
TopSymbols ==
  {[name |-> "f", kind |-> 12, range |-> CHOOSE x \in Ranges : TRUE,
    children |-> ch] : ch \in SeqsUpTo(MidSymbols, 1)}
  \cup {[name |-> "v", kind |-> 26, range |-> Null, children |-> <<>>]}
SymbolResults ==
  {Null}
  \cup {[t |-> "array", items |-> q] : q \in SeqsUpTo(TopSymbols, 2)}

\* getDocumentSymbols: return { symbols: this.formatSymbols(result) }
Symbols ==
  /\ arg.t = "documentSymbol"
  /\ ret = Null
  /\ ret' = [t |-> "returned", v |-> DocumentSymbols(arg.result)]
  /\ UNCHANGED <<arg, mvars, cvars>>

\* The formatting functions applied to any result of the bounded shapes.
FormatArgs ==
  {[t |-> "formatLocationResult", result |-> r] : r \in LocationResults}
  \cup {[t |-> "position", line |-> l, character |-> c] :
          l \in {1, MaxCoord + 1}, c \in {1, 5}}
  \cup {[t |-> "hover", result |-> r] : r \in HoverResults}
  \cup {[t |-> "documentSymbol", result |-> r] : r \in SymbolResults}

FormatSpecInit ==
  /\ MainInit
  /\ DecoderInit
  /\ sent = <<>>
  /\ stream = <<>>
  /\ arg \in FormatArgs
  /\ ret = Null

FormatNext == FormatLocations \/ SendPosition \/ Hover \/ Symbols

FormatSpec == FormatSpecInit /\ [][FormatNext]_vars

-----------------------------------------------------------------------------
(* Claims about the formatting functions *)

\* the locations of a result, and those of them that have a uri
LocationsOf(result) ==
  IF result = Null THEN <<>>
  ELSE IF result.t = "array" THEN result.items ELSE <<result.loc>>
HasUri(loc) == loc.uri # Null \/ loc.targetUri # Null
WireRange(loc) == IF loc.range # Null THEN loc.range ELSE loc.targetRange

\* C15: every coordinate of a location the facade returns is the wire value
\* plus one (line, character, endLine, endCharacter of every location that
\* has a uri, in the order of the wire), and the position sent in a request
\* is the caller's line and character minus one.
C15_CoordinatesOneBased ==
  /\ (arg.t = "formatLocationResult" /\ ret # Null) =>
       LET wire == SelectSeq(LocationsOf(arg.result), HasUri)
           out == ret.v.locations IN
       /\ Len(out) = Len(wire)
       /\ \A k \in 1..Len(wire) :
            LET r == WireRange(wire[k]) IN
            r # Null =>
              /\ out[k].line = r.start.line + 1
              /\ out[k].character = r.start.character + 1
              /\ out[k].endLine = r.end.line + 1
              /\ out[k].endCharacter = r.end.character + 1
  /\ (arg.t = "position" /\ ret # Null) =>
       /\ ret.v.line = arg.line - 1
       /\ ret.v.character = arg.character - 1

\* C15's case: the wire position {line: 9, character: 4} was returned as
\* {line: 10, character: 5}.
C15_Witness ==
  /\ arg.t = "formatLocationResult"
  /\ arg.result # Null
  /\ arg.result.t = "one"
  /\ arg.result.loc.range # Null
  /\ arg.result.loc.range.start = [line |-> 9, character |-> 4]
  /\ ret # Null
  /\ Len(ret.v.locations) = 1
  /\ ret.v.locations[1].line = 10
  /\ ret.v.locations[1].character = 5

\* the text of one entry of hover contents, and the texts of a list joined
\* with newlines
EntryText(c) == IF c.t = "string" THEN c.v ELSE c.value.v
RECURSIVE JoinLines(_)
JoinLines(items) ==
  IF items = <<>> THEN <<>>
  ELSE IF Len(items) = 1 THEN EntryText(items[1])
  ELSE EntryText(items[1]) \o <<"\n">> \o JoinLines(Tail(items))

\* C16: getHoverInfo returns one flat string for every shape of contents: the
\* string itself, the text of an object, the texts of a list's entries joined
\* with newlines; a null result gives {info: null}, which is no error.
C16_HoverContentsFlattened ==
  (arg.t = "hover" /\ ret # Null) =>
    IF arg.result = Null THEN ret.v = [info |-> Null]
    ELSE ret.v.info =
           Str(IF arg.result.contents.t = "array"
               THEN JoinLines(arg.result.contents.items)
               ELSE EntryText(arg.result.contents))

\* C16's case: a list of a string and an object was returned as their texts
\* joined with a newline.
C16_Witness ==
  /\ arg.t = "hover"
  /\ arg.result # Null
  /\ arg.result.contents =
       [t |-> "array",
        items |-> <<Str(<<"f">>), [t |-> "object", value |-> Str(<<"f", "o">>)]>>]
  /\ ret # Null
  /\ ret.v.info = Str(<<"f", "\n", "f", "o">>)

\* the symbol at a path (the indices from the top level down), Null when
\* there is none
RECURSIVE SymbolAt(_, _)
SymbolAt(symbols, path) ==
  IF path[1] > Len(symbols) THEN Null
  ELSE IF Len(path) = 1 THEN symbols[path[1]]
  ELSE SymbolAt(symbols[path[1]].children, Tail(path))

\* the paths of all symbols of a tree
SymbolPaths(symbols) ==
  {path \in UNION {[1..n -> 1..(MaxChildren + 1)] : n \in 1..3} :
     SymbolAt(symbols, path) # Null}

\* pre-order: an ancestor before its descendants, an elder before a younger
Before(p, q) ==
  \/ Len(p) < Len(q) /\ SubSeq(q, 1, Len(p)) = p
  \/ \E k \in 1..Len(p) :
       /\ k <= Len(q)
       /\ SubSeq(p, 1, k - 1) = SubSeq(q, 1, k - 1)
       /\ p[k] < q[k]

\* C17: getDocumentSymbols lists the symbols of the tree in pre-order: as
\* many entries as symbols, the symbol at each path at the place of that path
\* in pre-order (so once, and after its parent), with the depth of its
\* nesting, and with the label of its kind for the kinds 1 to 26 (Function
\* for 12, Variable for 13) and Unknown for any other.
C17_SymbolsFlattenedPreOrder ==
  (arg.t = "documentSymbol" /\ ret # Null /\ arg.result # Null) =>
    LET paths == SymbolPaths(arg.result.items)
        out == ret.v.symbols IN
    /\ Len(out) = Cardinality(paths)
    /\ \A p \in paths :
         LET sym == SymbolAt(arg.result.items, p)
             e == out[1 + Cardinality({q \in paths : Before(q, p)})] IN
         /\ e.name = sym.name
         /\ e.depth = Len(p) - 1
         /\ e.kind = IF sym.kind \in 1..26 THEN symbolKindMap[sym.kind]
                     ELSE "Unknown"
         /\ sym.kind = 12 => e.kind = "Function"
         /\ sym.kind = 13 => e.kind = "Variable"

\* C17's case: one top-level symbol of kind 12 holding one symbol of kind 13
\* gave two entries, Function at depth 0 and Variable at depth 1.
C17_Witness ==
  /\ arg.t = "documentSymbol"
  /\ ret # Null
  /\ Len(ret.v.symbols) = 2
  /\ ret.v.symbols[1].kind = "Function"
  /\ ret.v.symbols[1].depth = 0
  /\ ret.v.symbols[2].kind = "Variable"
  /\ ret.v.symbols[2].depth = 1

====
